---- MODULE Spec2Model ----
(***************************************************************************)
(* The catalog service of the storefront (lib/amazon-api.ts): the module-  *)
(* level array MOCK_PRODUCTS and the three asynchronous read operations    *)
(* searchProducts, getProductByASIN and getFeaturedProducts.  Every        *)
(* operation first awaits a timer (the simulated API delay) and then runs  *)
(* to completion on the JavaScript event loop, so a call is two steps: it  *)
(* is issued and suspends, and it resumes and settles its promise.         *)
(*                                                                         *)
(* A JavaScript string is a sequence of one-character strings, so that     *)
(* toLowerCase and includes are computed character by character.  An       *)
(* optional value (a field declared with ?) is the empty sequence when it  *)
(* is undefined and a one-element sequence when it is present.             *)
(***************************************************************************)
EXTENDS Integers, Sequences, FiniteSets

VARIABLES
    MOCK_PRODUCTS,   \* the module-level product array
    calls,           \* call slot -> the promise of the call the slot holds
    initialCatalog,  \* history: MOCK_PRODUCTS as the module initialised it
    pages            \* call slot -> the page request that awaits the call

vars == <<MOCK_PRODUCTS, calls, initialCatalog, pages>>

\* ------------------------------------------------------------- bounds

\* The longest catalog the module is initialised with.
MaxCatalog == 5

\* The number of callers that hold a promise at the same time.
MaxCalls == 2

\* The count of later settlements a settled promise remembers: at
\* MaxSince the count stays.
MaxSince == 2

\* ------------------------------------------------------- optional values

Undefined == <<>>

Some(x) == <<x>>

IsDefined(o) == o # Undefined

ValueOf(o) == o[1]

\* ------------------------------------------------------------- strings

UpperChars == <<"A", "B", "C", "D", "E", "F", "G", "H", "I", "J", "K", "L", "M",
                "N", "O", "P", "Q", "R", "S", "T", "U", "V", "W", "X", "Y", "Z">>

LowerChars == <<"a", "b", "c", "d", "e", "f", "g", "h", "i", "j", "k", "l", "m",
                "n", "o", "p", "q", "r", "s", "t", "u", "v", "w", "x", "y", "z">>

\* String.prototype.toLowerCase on one character: the letters A..Z map to
\* a..z and every other character of the catalog's texts maps to itself.
toLowerCaseChar(ch) ==
    IF \E i \in DOMAIN UpperChars : UpperChars[i] = ch
    THEN LowerChars[CHOOSE i \in DOMAIN UpperChars : UpperChars[i] = ch]
    ELSE ch

\* String.prototype.toLowerCase.
toLowerCase(s) == [i \in 1..Len(s) |-> toLowerCaseChar(s[i])]

\* String.prototype.includes: searchString occurs in s as one contiguous
\* run of characters; the empty searchString occurs in every string.
includes(s, searchString) ==
    \E start \in 0..(Len(s) - Len(searchString)) :
        \A k \in 1..Len(searchString) : s[start + k] = searchString[k]

\* The truthiness of an optional string: undefined and "" are falsy.
Truthy(optString) == IsDefined(optString) /\ ValueOf(optString) # <<>>

\* ------------------------------------------------------------ products

\* A Product (types/product.ts) with the fields the service reads and
\* three it never reads: isPrime, and the two the views render, which are
\* the link "/dp/<asin>" and no availability text until Listed sets them.
MkProduct(asin, title, price, brand, isPrime) ==
    [asin |-> asin, title |-> title, price |-> price, brand |-> brand,
     isPrime |-> isPrime,
     detailPageURL |-> <<"/", "d", "p", "/">> \o asin,
     availability |-> Undefined]

\* product with its detailPageURL and its availability text set.
Listed(product, detailPageURL, availability) ==
    [product EXCEPT !.detailPageURL = detailPageURL, !.availability = availability]

MkPrice(value) == [value |-> value, currency |-> "USD"]

\* The products the catalogs are built from.  Their ids are distinct, as the
\* ids of the shipped array are; two ids differ only in letter case, two
\* products differ only in the letter case of title and brand, one has no
\* brand and one has no price.
ProductUniverse ==
    << MkProduct(<<"A", "b">>, <<"A", "b">>, Some(MkPrice(2)), Some(<<"B">>), TRUE),
       MkProduct(<<"a", "b">>, <<"b">>, Some(MkPrice(1)), Undefined, FALSE),
       MkProduct(<<"B">>, <<"B", "A">>, Undefined, Some(<<"a", "b">>), TRUE),
       MkProduct(<<"b", "A">>, <<"a", "B">>, Some(MkPrice(2)), Some(<<"b">>), FALSE),
       MkProduct(<<"a">>, <<"b">>, Some(MkPrice(1)), Undefined, TRUE),
       MkProduct(<<"A">>, <<"a">>, Some(MkPrice(0)), Some(<<>>), FALSE) >>

Range(s) == {s[i] : i \in DOMAIN s}

\* The place of a product in ProductUniverse.
UniverseIndex(p) == CHOOSE i \in DOMAIN ProductUniverse : ProductUniverse[i] = p

\* s lists products of ProductUniverse in its order, or in its reverse order,
\* without repeating one.
IsMonotone(s) ==
    \/ \A i, j \in DOMAIN s : i < j => UniverseIndex(s[i]) < UniverseIndex(s[j])
    \/ \A i, j \in DOMAIN s : i < j => UniverseIndex(s[i]) > UniverseIndex(s[j])

\* The arrays MOCK_PRODUCTS is initialised with: every selection of at most
\* MaxCatalog products of ProductUniverse, stored in its order or in the
\* reverse order (the storage order is not an order of any field).
Catalogs ==
    {s \in UNION {[1..n -> Range(ProductUniverse)] : n \in 0..MaxCatalog} :
        IsMonotone(s)}

\* The catalogs that are a leading run of ProductUniverse or of its reverse.
ConcCatalogs ==
    {s \in Catalogs :
        s # <<>> => UniverseIndex(s[1]) \in {1, Len(ProductUniverse)}
                    /\ \A i \in 1..(Len(s) - 1) :
                          UniverseIndex(s[i + 1]) - UniverseIndex(s[i]) \in {1, -1}}

\* ------------------------------------------------------------ promises

Pending == <<>>

Fulfilled(v) == [kind |-> "fulfilled", value |-> v]

Rejected == [kind |-> "rejected"]

\* The value getProductByASIN resolves to when no product matches.
Null == [null |-> TRUE]

Min(a, b) == IF a <= b THEN a ELSE b

\* Array.prototype.slice(0, end).
slice(array, end) == SubSeq(array, 1, Min(end, Len(array)))

\* --------------------------------------------------- the three operations

\* Fault: the keyword filter compares without lowering the keywords
\* (const keywords = params.keywords).
filterByKeywordsCaseSensitive(results, params) ==
    IF Truthy(params.keywords)
    THEN LET keywords == ValueOf(params.keywords)
             Match(product) ==
                 \/ includes(toLowerCase(product.title), keywords)
                 \/ /\ IsDefined(product.brand)
                    /\ includes(toLowerCase(ValueOf(product.brand)), keywords)
         IN  SelectSeq(results, Match)
    ELSE results

\* Fault: the keyword filter looks at the title only.
filterByKeywordsTitleOnly(results, params) ==
    IF Truthy(params.keywords)
    THEN LET keywords == toLowerCase(ValueOf(params.keywords))
             Match(product) == includes(toLowerCase(product.title), keywords)
         IN  SelectSeq(results, Match)
    ELSE results

\* Fault: the keywords are lowered and the title is not
\* (product.title.includes(keywords)).
filterByKeywordsRawTitle(results, params) ==
    IF Truthy(params.keywords)
    THEN LET keywords == toLowerCase(ValueOf(params.keywords))
             Match(product) ==
                 \/ includes(product.title, keywords)
                 \/ /\ IsDefined(product.brand)
                    /\ includes(toLowerCase(ValueOf(product.brand)), keywords)
         IN  SelectSeq(results, Match)
    ELSE results

\* s without its leading and trailing spaces.
trim(s) ==
    LET inked == {i \in DOMAIN s : s[i] # " "}
    IN  IF inked = {}
        THEN <<>>
        ELSE SubSeq(s, CHOOSE i \in inked : \A j \in inked : i <= j,
                       CHOOSE i \in inked : \A j \in inked : i >= j)

\* Fault: the keywords are trimmed before they are matched
\* (params.keywords.trim().toLowerCase()).
filterByKeywordsTrimmed(results, params) ==
    IF Truthy(params.keywords)
    THEN LET keywords == toLowerCase(trim(ValueOf(params.keywords)))
             Match(product) ==
                 \/ includes(toLowerCase(product.title), keywords)
                 \/ /\ IsDefined(product.brand)
                    /\ includes(toLowerCase(ValueOf(product.brand)), keywords)
         IN  SelectSeq(results, Match)
    ELSE results

\* if (params.keywords) { ... }: the keyword filter of searchProducts.
\* Array.prototype.filter is SelectSeq: the elements that pass, in order.
filterByKeywords(results, params) ==
    IF Truthy(params.keywords)
    THEN LET keywords == toLowerCase(ValueOf(params.keywords))
             Match(product) ==
                 \/ includes(toLowerCase(product.title), keywords)
                 \/ /\ IsDefined(product.brand)
                    /\ includes(toLowerCase(ValueOf(product.brand)), keywords)
         IN  SelectSeq(results, Match)
    ELSE results

\* Fault: the lower bound is applied even when it is not supplied, as 0
\* (product.price.value >= (params.minPrice ?? 0) without the if).
filterByMinPriceDefaultZero(results, params) ==
    LET minPrice == IF params.minPrice # Undefined THEN ValueOf(params.minPrice) ELSE 0
        Match(product) ==
            /\ IsDefined(product.price)
            /\ ValueOf(product.price).value >= minPrice
    IN  SelectSeq(results, Match)

\* Fault: the lower bound is exclusive (> for >=).
filterByMinPriceStrict(results, params) ==
    IF params.minPrice # Undefined
    THEN LET Match(product) ==
                 /\ IsDefined(product.price)
                 /\ ValueOf(product.price).value > ValueOf(params.minPrice)
         IN  SelectSeq(results, Match)
    ELSE results

\* if (params.minPrice !== undefined) { ... }.
filterByMinPrice(results, params) ==
    IF params.minPrice # Undefined
    THEN LET Match(product) ==
                 /\ IsDefined(product.price)
                 /\ ValueOf(product.price).value >= ValueOf(params.minPrice)
         IN  SelectSeq(results, Match)
    ELSE results

\* Fault: the upper bound keeps the comparison of the lower bound's block
\* (>= for <=).
filterByMaxPriceAsMin(results, params) ==
    IF params.maxPrice # Undefined
    THEN LET Match(product) ==
                 /\ IsDefined(product.price)
                 /\ ValueOf(product.price).value >= ValueOf(params.maxPrice)
         IN  SelectSeq(results, Match)
    ELSE results

\* Fault: the upper bound is exclusive (< for <=).
filterByMaxPriceStrict(results, params) ==
    IF params.maxPrice # Undefined
    THEN LET Match(product) ==
                 /\ IsDefined(product.price)
                 /\ ValueOf(product.price).value < ValueOf(params.maxPrice)
         IN  SelectSeq(results, Match)
    ELSE results

\* Fault: the upper bound is tested for truthiness (if (params.maxPrice)),
\* so that a bound of 0 is taken as no bound.
filterByMaxPriceTruthy(results, params) ==
    IF params.maxPrice # Undefined /\ ValueOf(params.maxPrice) # 0
    THEN LET Match(product) ==
                 /\ IsDefined(product.price)
                 /\ ValueOf(product.price).value <= ValueOf(params.maxPrice)
         IN  SelectSeq(results, Match)
    ELSE results

\* if (params.maxPrice !== undefined) { ... }.
filterByMaxPrice(results, params) ==
    IF params.maxPrice # Undefined
    THEN LET Match(product) ==
                 /\ IsDefined(product.price)
                 /\ ValueOf(product.price).value <= ValueOf(params.maxPrice)
         IN  SelectSeq(results, Match)
    ELSE results

\* Fault: criteria with minPrice > maxPrice are rejected as invalid.
searchProductsValidating(products, params) ==
    IF /\ params.minPrice # Undefined
       /\ params.maxPrice # Undefined
       /\ ValueOf(params.minPrice) > ValueOf(params.maxPrice)
    THEN Rejected
    ELSE Fulfilled(filterByMaxPrice(filterByMinPrice(
                       filterByKeywords(products, params), params), params))

\* Fault: page is honoured: the results are cut to the page-th run of two.
searchProductsPaged(products, params) ==
    LET results == filterByMaxPrice(filterByMinPrice(
                       filterByKeywords(products, params), params), params)
    IN  IF params.page # Undefined
        THEN Fulfilled(SubSeq(results, (ValueOf(params.page) - 1) * 2 + 1,
                              Min(ValueOf(params.page) * 2, Len(results))))
        ELSE Fulfilled(results)

\* Fault: the price filters start again from the whole array
\* (results = MOCK_PRODUCTS.filter(...)), so that a bound undoes the
\* filters before it.
searchProductsRestarting(products, params) ==
    LET results0 == products
        results1 == filterByKeywords(results0, params)
        results2 == IF params.minPrice # Undefined
                    THEN filterByMinPrice(results0, params)
                    ELSE results1
        results3 == IF params.maxPrice # Undefined
                    THEN filterByMaxPrice(results0, params)
                    ELSE results2
    IN  Fulfilled(results3)

\* searchProducts after its delay: a copy of the array, narrowed by the
\* three filters in turn; the promise is fulfilled with what is left.
searchProducts(products, params) ==
    LET results0 == products
        results1 == filterByKeywords(results0, params)
        results2 == filterByMinPrice(results1, params)
        results3 == filterByMaxPrice(results2, params)
    IN  Fulfilled(results3)

\* Fault: the ids are compared without regard to letter case.
findIgnoringCase(products, asin) ==
    LET hits == {i \in DOMAIN products :
                    toLowerCase(products[i].asin) = toLowerCase(asin)}
    IN  IF hits = {}
        THEN Undefined
        ELSE Some(products[CHOOSE i \in hits : \A j \in hits : i <= j])

\* Fault: a product is found by a leading part of its id
\* (p.asin.startsWith(asin)).
findByPrefix(products, asin) ==
    LET hits == {i \in DOMAIN products :
                    /\ Len(asin) <= Len(products[i].asin)
                    /\ SubSeq(products[i].asin, 1, Len(asin)) = asin}
    IN  IF hits = {}
        THEN Undefined
        ELSE Some(products[CHOOSE i \in hits : \A j \in hits : i <= j])

\* Array.prototype.find with p => p.asin === asin: the first match, or
\* undefined.
find(products, asin) ==
    LET hits == {i \in DOMAIN products : products[i].asin = asin}
    IN  IF hits = {}
        THEN Undefined
        ELSE Some(products[CHOOSE i \in hits : \A j \in hits : i <= j])

\* Fault: an unmatched lookup throws, so the promise is rejected.
getProductByASINThrowing(products, asin) ==
    LET product == find(products, asin)
    IN  IF IsDefined(product) THEN Fulfilled(ValueOf(product)) ELSE Rejected

\* getProductByASIN after its delay: product || null.
getProductByASIN(products, asin) ==
    LET product == find(products, asin)
    IN  Fulfilled(IF IsDefined(product) THEN ValueOf(product) ELSE Null)

\* The number of products getFeaturedProducts returns.
FeaturedCount == 4

\* Fault: the slice ends one product early (slice(0, 3)).
getFeaturedProductsOffByOne(products) == Fulfilled(slice(products, FeaturedCount - 1))

\* Fault: null, not an empty array, when there is nothing to feature.
getFeaturedProductsNullWhenEmpty(products) ==
    IF products = <<>> THEN Fulfilled(Null) ELSE Fulfilled(slice(products, FeaturedCount))

\* getFeaturedProducts after its delay: MOCK_PRODUCTS.slice(0, 4).
getFeaturedProducts(products) == Fulfilled(slice(products, FeaturedCount))

\* ------------------------------------------------------------ the calls

\* A slot that holds no call.  overlapped and since are history, read by no
\* operation: whether another call was suspended at its delay while this
\* one was, and how many calls have settled since this one did or, later,
\* since its caller edited the array it was given.  shares tells whether
\* the array the promise is fulfilled with is the module's array itself,
\* not a new array.
Idle ==
    [pc |-> "idle", op |-> "none", arg |-> <<>>, outcome |-> Pending,
     overlapped |-> FALSE, since |-> 0, shares |-> FALSE]

InFlight(c) == calls[c].pc = "delay"

\* A caller invokes an operation: the async function runs to its await of
\* the timer and returns a pending promise.
Issue(c, op, arg) ==
    /\ calls[c].pc = "idle"
    /\ calls' =
         [d \in DOMAIN calls |->
            IF d = c
            THEN [pc |-> "delay", op |-> op, arg |-> arg, outcome |-> Pending,
                  overlapped |-> \E e \in DOMAIN calls \ {c} : InFlight(e),
                  since |-> 0, shares |-> FALSE]
            ELSE IF InFlight(d)
                 THEN [calls[d] EXCEPT !.overlapped = TRUE]
                 ELSE calls[d]]
    /\ UNCHANGED <<MOCK_PRODUCTS, initialCatalog>>

\* A page request that awaits no call yet and has produced no response.
NoPage == [view |-> "none", param |-> Undefined, heading |-> Undefined, response |-> Undefined]

\* A caller other than a page invokes an operation.
CallSearch(c, params) == Issue(c, "search", params) /\ UNCHANGED pages

CallGetById(c, asin) == Issue(c, "getById", asin) /\ UNCHANGED pages

\* count is the argument the caller passes, if any: getFeaturedProducts
\* declares no parameter, and JavaScript drops an argument a function does
\* not declare.
CallFeatured(c, count) == Issue(c, "featured", count) /\ UNCHANGED pages

\* The function body runs to its return: the promise settles.
Settle(c, outcome) ==
    calls' =
      [d \in DOMAIN calls |->
         IF d = c
         THEN [calls[c] EXCEPT !.pc = "settled", !.outcome = outcome]
         ELSE IF calls[d].pc \in {"settled", "edited"}
              THEN [calls[d] EXCEPT !.since = Min(calls[d].since + 1, MaxSince)]
              ELSE calls[d]]

\* Fault: the search narrows the module's array itself instead of a copy
\* (MOCK_PRODUCTS is reassigned to the filtered array).
ResumeSearchInPlace(c) ==
    /\ InFlight(c)
    /\ calls[c].op = "search"
    /\ Settle(c, searchProducts(MOCK_PRODUCTS, calls[c].arg))
    /\ MOCK_PRODUCTS' = searchProducts(MOCK_PRODUCTS, calls[c].arg).value
    /\ UNCHANGED <<initialCatalog, pages>>

\* Fault: the search starts from the module's array, not from a copy of it
\* (let results = MOCK_PRODUCTS): when no filter is supplied, the array the
\* promise is fulfilled with is the module's array.
ResumeSearchNoCopy(c) ==
    /\ InFlight(c)
    /\ calls[c].op = "search"
    /\ calls' =
         [d \in DOMAIN calls |->
            IF d = c
            THEN [calls[c] EXCEPT
                    !.pc = "settled",
                    !.outcome = searchProducts(MOCK_PRODUCTS, calls[c].arg),
                    !.shares = /\ ~Truthy(calls[c].arg.keywords)
                               /\ calls[c].arg.minPrice = Undefined
                               /\ calls[c].arg.maxPrice = Undefined]
            ELSE IF calls[d].pc \in {"settled", "edited"}
                 THEN [calls[d] EXCEPT !.since = Min(calls[d].since + 1, MaxSince)]
                 ELSE calls[d]]
    /\ UNCHANGED <<MOCK_PRODUCTS, initialCatalog, pages>>

\* The timer of a suspended searchProducts call fires.
ResumeSearch(c) ==
    /\ InFlight(c)
    /\ calls[c].op = "search"
    /\ Settle(c, searchProducts(MOCK_PRODUCTS, calls[c].arg))
    /\ UNCHANGED <<MOCK_PRODUCTS, initialCatalog, pages>>

\* Fault: the timer's callback never calls resolve
\* (setTimeout(() => {}, 300)), so the call is never resumed.
ResumeGetByIdNeverResolved(c) ==
    /\ InFlight(c)
    /\ calls[c].op = "getById"
    /\ FALSE
    /\ UNCHANGED vars

\* The timer of a suspended getProductByASIN call fires.
ResumeGetById(c) ==
    /\ InFlight(c)
    /\ calls[c].op = "getById"
    /\ Settle(c, getProductByASIN(MOCK_PRODUCTS, calls[c].arg))
    /\ UNCHANGED <<MOCK_PRODUCTS, initialCatalog, pages>>

\* Fault: splice for slice: the first four products are returned and
\* removed from the module's array.
ResumeFeaturedSplice(c) ==
    /\ InFlight(c)
    /\ calls[c].op = "featured"
    /\ Settle(c, getFeaturedProducts(MOCK_PRODUCTS))
    /\ MOCK_PRODUCTS' =
         SubSeq(MOCK_PRODUCTS, Min(FeaturedCount, Len(MOCK_PRODUCTS)) + 1,
                Len(MOCK_PRODUCTS))
    /\ UNCHANGED <<initialCatalog, pages>>

\* The timer of a suspended getFeaturedProducts call fires.
ResumeFeatured(c) ==
    /\ InFlight(c)
    /\ calls[c].op = "featured"
    /\ Settle(c, getFeaturedProducts(MOCK_PRODUCTS))
    /\ UNCHANGED <<MOCK_PRODUCTS, initialCatalog, pages>>

\* The caller's await takes the settled promise's outcome.
Return(c) ==
    /\ calls[c].pc = "settled"
    /\ calls' = [calls EXCEPT ![c] = Idle]
    /\ UNCHANGED <<MOCK_PRODUCTS, initialCatalog, pages>>

\* ------------------------------------------------------------- inputs

\* SearchParams with category and page left out.
MkParams(keywords, minPrice, maxPrice) ==
    [keywords |-> keywords, minPrice |-> minPrice, maxPrice |-> maxPrice,
     category |-> Undefined, page |-> Undefined]

\* params with its category and page set.
WithReserved(params, category, page) ==
    [params EXCEPT !.category = category, !.page = page]

KeywordInputs ==
    {Undefined, Some(<<>>), Some(<<"b">>), Some(<<"B">>), Some(<<"a", "b">>),
     Some(<<"a", "B">>), Some(<<"A", "B">>)}

PriceInputs == {Undefined, Some(0), Some(1), Some(2)}

SearchInputs ==
    {MkParams(k, lo, hi) : k \in KeywordInputs, lo \in PriceInputs, hi \in PriceInputs}

AsinInputs ==
    {<<>>, <<"A", "b">>, <<"a", "b">>, <<"a", "B">>, <<"B">>, <<"b", "A">>,
     <<"a">>, <<"A">>, <<"b">>}

CountInputs == {Undefined, Some(2), Some(4), Some(6)}

ConcSearchInputs ==
    {MkParams(Undefined, Undefined, Undefined),
     MkParams(Some(<<"a", "B">>), Some(1), Undefined)}

ConcAsinInputs == {<<"A", "b">>, <<"b">>}

ConcCountInputs == {Undefined}

\* ------------------------------------------------------ specifications

\* One caller at a time, every catalog and every input.
Init ==
    /\ MOCK_PRODUCTS \in Catalogs
    /\ initialCatalog = MOCK_PRODUCTS
    /\ calls = [c \in {1} |-> Idle]
    /\ pages = [c \in DOMAIN calls |-> NoPage]

Next ==
    \E c \in DOMAIN calls :
        \/ \E params \in SearchInputs : CallSearch(c, params)
        \/ \E asin \in AsinInputs : CallGetById(c, asin)
        \/ \E count \in CountInputs : CallFeatured(c, count)
        \/ ResumeSearch(c)
        \/ ResumeGetById(c)
        \/ ResumeFeatured(c)
        \/ Return(c)

Spec == Init /\ [][Next]_vars

\* MaxCalls callers whose calls are suspended and resumed in any order.
InitConc ==
    /\ MOCK_PRODUCTS \in ConcCatalogs
    /\ initialCatalog = MOCK_PRODUCTS
    /\ calls = [c \in 1..MaxCalls |-> Idle]
    /\ pages = [c \in DOMAIN calls |-> NoPage]

NextConc ==
    \E c \in DOMAIN calls :
        \/ \E params \in ConcSearchInputs : CallSearch(c, params)
        \/ \E asin \in ConcAsinInputs : CallGetById(c, asin)
        \/ \E count \in ConcCountInputs : CallFeatured(c, count)
        \/ ResumeSearch(c)
        \/ ResumeGetById(c)
        \/ ResumeFeatured(c)
        \/ Return(c)

SpecConc == InitConc /\ [][NextConc]_vars

\* ---------------------------------------------------------- properties

Settled(c, op) == calls[c].pc = "settled" /\ calls[c].op = op

\* The value a settled call's promise was fulfilled with.
ResultOf(c) == calls[c].outcome.value

IdsOf(products) == {products[i].asin : i \in DOMAIN products}

NoFilters == MkParams(Undefined, Undefined, Undefined)

\* s and t differ at most in the letter case of their characters.
CaseVariant(s, t) ==
    /\ Len(s) = Len(t)
    /\ \A i \in 1..Len(s) :
          \/ s[i] = t[i]
          \/ \E k \in DOMAIN UpperChars :
                {s[i], t[i]} = {UpperChars[k], LowerChars[k]}

\* p satisfies the keyword filter of params, as the specification words it.
SatisfiesKeywords(p, params) ==
    (IsDefined(params.keywords) /\ ValueOf(params.keywords) # <<>>) =>
        LET k == toLowerCase(ValueOf(params.keywords))
        IN  \/ includes(toLowerCase(p.title), k)
            \/ IsDefined(p.brand) /\ includes(toLowerCase(ValueOf(p.brand)), k)

SatisfiesMinPrice(p, params) ==
    IsDefined(params.minPrice) =>
        IsDefined(p.price) /\ ValueOf(p.price).value >= ValueOf(params.minPrice)

SatisfiesMaxPrice(p, params) ==
    IsDefined(params.maxPrice) =>
        IsDefined(p.price) /\ ValueOf(p.price).value <= ValueOf(params.maxPrice)

SatisfiesAll(p, params) ==
    /\ SatisfiesKeywords(p, params)
    /\ SatisfiesMinPrice(p, params)
    /\ SatisfiesMaxPrice(p, params)

\* C1: for every product p of the catalog, getProductByASIN(p.asin) is
\* fulfilled with p itself: not with another product, not with null.
C1_GetByIdReturnsTheProduct ==
    \A c \in DOMAIN calls :
        Settled(c, "getById") =>
            \A i \in DOMAIN MOCK_PRODUCTS :
                MOCK_PRODUCTS[i].asin = calls[c].arg =>
                    calls[c].outcome = Fulfilled(MOCK_PRODUCTS[i])

\* A lookup of a product that is not the first of the catalog, with an
\* earlier product whose id differs from it only in letter case.
C1_Witness ==
    \E c \in DOMAIN calls :
        /\ Settled(c, "getById")
        /\ \E i, j \in DOMAIN MOCK_PRODUCTS :
              /\ j < i
              /\ MOCK_PRODUCTS[i].asin = calls[c].arg
              /\ CaseVariant(MOCK_PRODUCTS[j].asin, calls[c].arg)

\* C2: for every identifier that is the id of no catalog product, the
\* empty string included, getProductByASIN is fulfilled with null: it never
\* throws and its promise is never rejected.
C2_GetByIdUnknownIsNull ==
    \A c \in DOMAIN calls :
        (Settled(c, "getById") /\ calls[c].arg \notin IdsOf(MOCK_PRODUCTS)) =>
            calls[c].outcome = Fulfilled(Null)

\* A lookup of the empty string in a catalog that holds products.
C2_Witness ==
    \E c \in DOMAIN calls :
        /\ Settled(c, "getById")
        /\ calls[c].arg = <<>>
        /\ MOCK_PRODUCTS # <<>>

\* C3: searchProducts with no filter supplied is fulfilled with every
\* product of the catalog exactly once, in the storage order.
C3_SearchNoFiltersIsCatalog ==
    \A c \in DOMAIN calls :
        (Settled(c, "search") /\ calls[c].arg = NoFilters) =>
            /\ calls[c].outcome = Fulfilled(MOCK_PRODUCTS)
            /\ \A p \in Range(MOCK_PRODUCTS) :
                  Cardinality({i \in DOMAIN ResultOf(c) : ResultOf(c)[i] = p}) = 1

\* A search without filters over a catalog that holds a product without a
\* price and one without a brand.
C3_Witness ==
    \E c \in DOMAIN calls :
        /\ Settled(c, "search")
        /\ calls[c].arg = NoFilters
        /\ \E p, q \in Range(MOCK_PRODUCTS) :
              p.price = Undefined /\ q.brand = Undefined

\* C4: every product of a search result satisfies every filter the criteria
\* supply: the lowercased keywords occur in its lowercased title or brand,
\* and it has a price within the supplied bounds.
C4_ResultsSatisfyFilters ==
    \A c \in DOMAIN calls :
        Settled(c, "search") =>
            /\ calls[c].outcome.kind = "fulfilled"
            /\ \A i \in DOMAIN ResultOf(c) :
                  SatisfiesAll(ResultOf(c)[i], calls[c].arg)

\* A search with all three filters supplied that keeps one product and
\* drops another.
C4_Witness ==
    \E c \in DOMAIN calls :
        /\ Settled(c, "search")
        /\ Truthy(calls[c].arg.keywords)
        /\ IsDefined(calls[c].arg.minPrice)
        /\ IsDefined(calls[c].arg.maxPrice)
        /\ ResultOf(c) # <<>>
        /\ Len(ResultOf(c)) < Len(MOCK_PRODUCTS)

\* C5: a search result is exactly the products of the catalog that satisfy
\* every supplied filter, each once and in the storage order; products that
\* agree in title, brand and price are kept or dropped together.
C5_ResultIsExactlyTheMatches ==
    \A c \in DOMAIN calls :
        Settled(c, "search") =>
            LET Keep(p) == SatisfiesAll(p, calls[c].arg)
            IN  /\ calls[c].outcome = Fulfilled(SelectSeq(MOCK_PRODUCTS, Keep))
                /\ \A p, q \in Range(MOCK_PRODUCTS) :
                      (p.title = q.title /\ p.brand = q.brand /\ p.price = q.price)
                          => (p \in Range(ResultOf(c)) <=> q \in Range(ResultOf(c)))

\* A search whose lower bound equals the price of a product it keeps, over
\* a catalog with two products that differ only in id and isPrime.
C5_Witness ==
    \E c \in DOMAIN calls :
        /\ Settled(c, "search")
        /\ IsDefined(calls[c].arg.minPrice)
        /\ \E p, q \in Range(MOCK_PRODUCTS) :
              /\ p # q
              /\ p.title = q.title /\ p.brand = q.brand /\ p.price = q.price
              /\ p \in Range(ResultOf(c))
              /\ ValueOf(p.price).value = ValueOf(calls[c].arg.minPrice)
        /\ Len(ResultOf(c)) < Len(MOCK_PRODUCTS)

\* The first n elements of s, or all of s when it is shorter.
IsPrefixOfLength(r, s, n) ==
    /\ Len(r) = (IF n <= Len(s) THEN n ELSE Len(s))
    /\ \A i \in 1..Len(r) : r[i] = s[i]

\* r is a leading run of s.
IsPrefix(r, s) == Len(r) <= Len(s) /\ \A i \in 1..Len(r) : r[i] = s[i]

\* C6 as stated: getFeatured(n) returns exactly the first min(n, size)
\* products in storage order for every count n (4 when none is given), a
\* prefix of the result of the search without filters.
C6_FeaturedHonoursCount ==
    \A c \in DOMAIN calls :
        Settled(c, "featured") =>
            LET n == IF IsDefined(calls[c].arg) THEN ValueOf(calls[c].arg) ELSE 4
            IN  /\ calls[c].outcome.kind = "fulfilled"
                /\ IsPrefixOfLength(ResultOf(c), MOCK_PRODUCTS, n)
                /\ IsPrefix(ResultOf(c), searchProducts(MOCK_PRODUCTS, NoFilters).value)

\* C6 (amended): getFeaturedProducts takes no count; whatever count the
\* caller passes, it returns exactly the first min(4, size) products in
\* storage order, a prefix of the result of the search without filters, and
\* all the products when the catalog holds fewer than 4.
C6_FeaturedIsFirstFour ==
    \A c \in DOMAIN calls :
        Settled(c, "featured") =>
            /\ calls[c].outcome.kind = "fulfilled"
            /\ IsPrefixOfLength(ResultOf(c), MOCK_PRODUCTS, 4)
            /\ IsPrefix(ResultOf(c), searchProducts(MOCK_PRODUCTS, NoFilters).value)

\* A featured call that passes a count other than 4 over a catalog of more
\* than 4 products.
C6_Witness ==
    \E c \in DOMAIN calls :
        /\ Settled(c, "featured")
        /\ IsDefined(calls[c].arg)
        /\ ValueOf(calls[c].arg) # 4
        /\ Len(MOCK_PRODUCTS) > 4

\* C7: the keyword search ignores letter case: keywords that differ only in
\* letter case give identical results, and products whose titles and brands
\* differ only in letter case are kept or dropped together.
C7_KeywordCaseInsensitive ==
    \A c \in DOMAIN calls :
        (Settled(c, "search") /\ IsDefined(calls[c].arg.keywords)) =>
            /\ \A k \in KeywordInputs :
                  (IsDefined(k) /\ CaseVariant(ValueOf(k), ValueOf(calls[c].arg.keywords)))
                      => calls[c].outcome =
                           searchProducts(MOCK_PRODUCTS, [calls[c].arg EXCEPT !.keywords = k])
            /\ \A p, q \in Range(MOCK_PRODUCTS) :
                  ( /\ CaseVariant(p.title, q.title)
                    /\ IsDefined(p.brand) = IsDefined(q.brand)
                    /\ IsDefined(p.brand) => CaseVariant(ValueOf(p.brand), ValueOf(q.brand))
                    /\ p.price = q.price )
                      => (p \in Range(ResultOf(c)) <=> q \in Range(ResultOf(c)))

\* A search by upper-case keywords that keeps two products whose titles
\* differ from each other, and from the keywords, in letter case, and drops
\* a third product.
C7_Witness ==
    \E c \in DOMAIN calls :
        /\ Settled(c, "search")
        /\ calls[c].arg.keywords = Some(<<"A", "B">>)
        /\ \E p, q \in Range(ResultOf(c)) :
              p.title # q.title /\ CaseVariant(p.title, q.title)
        /\ Len(ResultOf(c)) < Len(MOCK_PRODUCTS)

\* C8: after any sequence of calls of the three operations the catalog holds
\* the same products, in the same order, with the same field values as when
\* the module initialised it.
C8_CatalogUnchanged == MOCK_PRODUCTS = initialCatalog

\* A search settled, at least two more calls settled after it, a featured
\* call among them, over a catalog that holds products.
C8_Witness ==
    \E c, d \in DOMAIN calls :
        /\ Settled(c, "search")
        /\ Settled(d, "featured")
        /\ calls[c].since >= 2
        /\ initialCatalog # <<>>

\* C9: two calls of the same operation with identical input settle with
\* identical outcomes, whatever calls run in between.
C9_Idempotent ==
    \A c, d \in DOMAIN calls :
        ( /\ calls[c].pc = "settled"
          /\ calls[d].pc = "settled"
          /\ calls[c].op = calls[d].op
          /\ calls[c].arg = calls[d].arg )
            => calls[c].outcome = calls[d].outcome

\* Two settled calls with identical input, the later of which settled last,
\* with another call settled between them.
C9_Witness ==
    \E c, d \in DOMAIN calls :
        /\ c # d
        /\ calls[c].pc = "settled"
        /\ calls[d].pc = "settled"
        /\ calls[c].op = calls[d].op
        /\ calls[c].arg = calls[d].arg
        /\ calls[c].since >= 2
        /\ calls[d].since = 0
        /\ initialCatalog # <<>>

\* The outcome of the call in slot c had it been the only call issued since
\* the module initialised.
RunAlone(c) ==
    CASE calls[c].op = "search" -> searchProducts(initialCatalog, calls[c].arg)
      [] calls[c].op = "getById" -> getProductByASIN(initialCatalog, calls[c].arg)
      [] calls[c].op = "featured" -> getFeaturedProducts(initialCatalog)

\* C10: with calls in flight at the same time and resumed in any order,
\* every call settles with the outcome it would have had alone: no call
\* observes an effect of another.
C10_ConcurrentCallsIndependent ==
    \A c \in DOMAIN calls :
        calls[c].pc = "settled" => calls[c].outcome = RunAlone(c)

\* Two calls of different operations that were suspended at their delays at
\* the same time and have both settled.
C10_Witness ==
    \E c, d \in DOMAIN calls :
        /\ c # d
        /\ calls[c].pc = "settled"
        /\ calls[d].pc = "settled"
        /\ calls[c].overlapped
        /\ calls[d].overlapped
        /\ calls[c].op # calls[d].op
        /\ initialCatalog # <<>>

\* C11: the price bounds are inclusive and need a price: a product priced
\* exactly at a supplied bound is kept when it passes the other filters, and
\* a product without a price is dropped whenever a bound is supplied.
C11_PriceBoundsInclusive ==
    \A c \in DOMAIN calls :
        Settled(c, "search") =>
            \A p \in Range(MOCK_PRODUCTS) :
                LET params == calls[c].arg
                    kept == p \in Range(ResultOf(c))
                IN  /\ ( /\ IsDefined(params.minPrice)
                         /\ IsDefined(p.price)
                         /\ ValueOf(p.price).value = ValueOf(params.minPrice)
                         /\ SatisfiesKeywords(p, params)
                         /\ SatisfiesMaxPrice(p, params) ) => kept
                    /\ ( /\ IsDefined(params.maxPrice)
                         /\ IsDefined(p.price)
                         /\ ValueOf(p.price).value = ValueOf(params.maxPrice)
                         /\ SatisfiesKeywords(p, params)
                         /\ SatisfiesMinPrice(p, params) ) => kept
                    /\ ( /\ IsDefined(params.minPrice) \/ IsDefined(params.maxPrice)
                         /\ p.price = Undefined ) => ~kept

\* A search with the upper bound alone that keeps a product priced at the
\* bound, over a catalog that also holds a product without a price.
C11_Witness ==
    \E c \in DOMAIN calls :
        /\ Settled(c, "search")
        /\ calls[c].arg.minPrice = Undefined
        /\ IsDefined(calls[c].arg.maxPrice)
        /\ \E p \in Range(ResultOf(c)) :
              ValueOf(p.price).value = ValueOf(calls[c].arg.maxPrice)
        /\ \E q \in Range(MOCK_PRODUCTS) : q.price = Undefined

\* C12: criteria with minPrice > maxPrice are not rejected: the search is
\* fulfilled with the empty sequence; with minPrice = maxPrice it is
\* fulfilled with exactly the products priced at that value that pass the
\* keyword filter.
C12_CrossedBoundsGiveEmpty ==
    \A c \in DOMAIN calls :
        ( /\ Settled(c, "search")
          /\ IsDefined(calls[c].arg.minPrice)
          /\ IsDefined(calls[c].arg.maxPrice) ) =>
            LET lo == ValueOf(calls[c].arg.minPrice)
                hi == ValueOf(calls[c].arg.maxPrice)
                AtPrice(p) == /\ IsDefined(p.price)
                              /\ ValueOf(p.price).value = lo
                              /\ SatisfiesKeywords(p, calls[c].arg)
            IN  /\ lo > hi => calls[c].outcome = Fulfilled(<<>>)
                /\ lo = hi => calls[c].outcome =
                                Fulfilled(SelectSeq(MOCK_PRODUCTS, AtPrice))

\* A search with minPrice > maxPrice over a catalog that holds a product at
\* each of the two prices.
C12_Witness ==
    \E c \in DOMAIN calls :
        /\ Settled(c, "search")
        /\ IsDefined(calls[c].arg.minPrice)
        /\ IsDefined(calls[c].arg.maxPrice)
        /\ ValueOf(calls[c].arg.minPrice) > ValueOf(calls[c].arg.maxPrice)
        /\ \E p, q \in Range(MOCK_PRODUCTS) :
              /\ IsDefined(p.price) /\ IsDefined(q.price)
              /\ ValueOf(p.price).value = ValueOf(calls[c].arg.minPrice)
              /\ ValueOf(q.price).value = ValueOf(calls[c].arg.maxPrice)

\* C13: with keywords, a product is matched through its title or its brand:
\* one whose brand alone holds the keywords is kept, one without a brand is
\* kept when its title holds them and is dropped, without an error, when
\* its title does not.
C13_KeywordTitleOrBrand ==
    \A c \in DOMAIN calls :
        (Settled(c, "search") /\ Truthy(calls[c].arg.keywords)) =>
            LET params == calls[c].arg
                k == toLowerCase(ValueOf(params.keywords))
                InBounds(p) == SatisfiesMinPrice(p, params) /\ SatisfiesMaxPrice(p, params)
            IN  /\ calls[c].outcome.kind = "fulfilled"
                /\ \A p \in Range(MOCK_PRODUCTS) :
                      LET kept == p \in Range(ResultOf(c))
                          inTitle == includes(toLowerCase(p.title), k)
                      IN  /\ ( /\ ~inTitle
                               /\ IsDefined(p.brand)
                               /\ includes(toLowerCase(ValueOf(p.brand)), k)
                               /\ InBounds(p) ) => kept
                          /\ (p.brand = Undefined /\ inTitle /\ InBounds(p)) => kept
                          /\ (p.brand = Undefined /\ ~inTitle) => ~kept

\* A search by keywords that keeps a product matched by its brand alone and
\* drops a product that has no brand and whose title does not match.
C13_Witness ==
    \E c \in DOMAIN calls :
        /\ Settled(c, "search")
        /\ Truthy(calls[c].arg.keywords)
        /\ \E p \in Range(ResultOf(c)) :
              ~includes(toLowerCase(p.title), toLowerCase(ValueOf(calls[c].arg.keywords)))
        /\ \E q \in Range(MOCK_PRODUCTS) :
              q.brand = Undefined /\ q \notin Range(ResultOf(c))

\* --------------------------------------------------- the shipped catalog

\* The six products of MOCK_PRODUCTS as the source lists them.  A price is
\* in cents (249.99 is 24999), so that the comparisons with the bounds are
\* exact.  The three characters of the second title that are not ASCII are
\* named by their code points; toLowerCase maps each to itself.

\* MOCK_PRODUCTS[0]: B08N5WRWNW.
Shipped1 ==
    Listed(
        MkProduct(
            <<"B", "0", "8", "N", "5", "W", "R", "W", "N", "W">>,
            <<"A", "p", "p", "l", "e", " ", "A", "i", "r", "P", "o", "d", "s",
              " ", "P", "r", "o", " ", "(", "2", "n", "d", " ", "G", "e", "n",
              "e", "r", "a", "t", "i", "o", "n", ")">>,
            Some(MkPrice(24999)),
            Some(<<"A", "p", "p", "l", "e">>),
            TRUE),
        <<"h", "t", "t", "p", "s", ":", "/", "/", "a", "m", "a", "z",
          "o", "n", ".", "c", "o", "m", "/", "d", "p", "/", "B", "0",
          "8", "N", "5", "W", "R", "W", "N", "W">>,
        Some(<<"I", "n", " ", "S", "t", "o", "c", "k">>))

\* MOCK_PRODUCTS[1]: B0CX23V2ZK.
Shipped2 ==
    Listed(
        MkProduct(
            <<"B", "0", "C", "X", "2", "3", "V", "2", "Z", "K">>,
            <<"K", "i", "n", "d", "l", "e", " ", "P", "a", "p", "e", "r", "w",
              "h", "i", "t", "e", " ", "(", "1", "6", " ", "G", "B", ")", " ",
              "U+00E2", "U+20AC", "U+201C", " ", "N", "o", "w", " ", "w", "i", "t", "h", " ",
              "a", " ", "l", "a", "r", "g", "e", "r", " ", "d", "i", "s", "p",
              "l", "a", "y">>,
            Some(MkPrice(15999)),
            Some(<<"A", "m", "a", "z", "o", "n">>),
            TRUE),
        <<"h", "t", "t", "p", "s", ":", "/", "/", "a", "m", "a", "z",
          "o", "n", ".", "c", "o", "m", "/", "d", "p", "/", "B", "0",
          "C", "X", "2", "3", "V", "2", "Z", "K">>,
        Some(<<"I", "n", " ", "S", "t", "o", "c", "k">>))

\* MOCK_PRODUCTS[2]: B0D1XD1ZV3.
Shipped3 ==
    Listed(
        MkProduct(
            <<"B", "0", "D", "1", "X", "D", "1", "Z", "V", "3">>,
            <<"S", "o", "n", "y", " ", "W", "H", "-", "1", "0", "0", "0", "X",
              "M", "5", " ", "W", "i", "r", "e", "l", "e", "s", "s", " ", "N",
              "o", "i", "s", "e", " ", "C", "a", "n", "c", "e", "l", "l", "i",
              "n", "g", " ", "H", "e", "a", "d", "p", "h", "o", "n", "e", "s">>,
            Some(MkPrice(39800)),
            Some(<<"S", "o", "n", "y">>),
            FALSE),
        <<"h", "t", "t", "p", "s", ":", "/", "/", "a", "m", "a", "z",
          "o", "n", ".", "c", "o", "m", "/", "d", "p", "/", "B", "0",
          "D", "1", "X", "D", "1", "Z", "V", "3">>,
        Some(<<"I", "n", " ", "S", "t", "o", "c", "k">>))

\* MOCK_PRODUCTS[3]: B09G9FPHY6.
Shipped4 ==
    Listed(
        MkProduct(
            <<"B", "0", "9", "G", "9", "F", "P", "H", "Y", "6">>,
            <<"S", "a", "m", "s", "u", "n", "g", " ", "G", "a", "l", "a", "x",
              "y", " ", "T", "a", "b", " ", "S", "9", " ", "1", "1", "\"", " ",
              "1", "2", "8", "G", "B", " ", "W", "i", "F", "i", " ", "T", "a",
              "b", "l", "e", "t">>,
            Some(MkPrice(67999)),
            Some(<<"S", "a", "m", "s", "u", "n", "g">>),
            TRUE),
        <<"h", "t", "t", "p", "s", ":", "/", "/", "a", "m", "a", "z",
          "o", "n", ".", "c", "o", "m", "/", "d", "p", "/", "B", "0",
          "9", "G", "9", "F", "P", "H", "Y", "6">>,
        Some(<<"I", "n", " ", "S", "t", "o", "c", "k">>))

\* MOCK_PRODUCTS[4]: B0BSHF7WHW.
Shipped5 ==
    Listed(
        MkProduct(
            <<"B", "0", "B", "S", "H", "F", "7", "W", "H", "W">>,
            <<"A", "n", "k", "e", "r", " ", "P", "o", "w", "e", "r", "C", "o",
              "r", "e", " ", "2", "0", "0", "0", "0", "m", "A", "h", " ", "P",
              "o", "r", "t", "a", "b", "l", "e", " ", "C", "h", "a", "r", "g",
              "e", "r">>,
            Some(MkPrice(4999)),
            Some(<<"A", "n", "k", "e", "r">>),
            TRUE),
        <<"h", "t", "t", "p", "s", ":", "/", "/", "a", "m", "a", "z",
          "o", "n", ".", "c", "o", "m", "/", "d", "p", "/", "B", "0",
          "B", "S", "H", "F", "7", "W", "H", "W">>,
        Some(<<"I", "n", " ", "S", "t", "o", "c", "k">>))

\* MOCK_PRODUCTS[5]: B08XYKHSJQ.
Shipped6 ==
    Listed(
        MkProduct(
            <<"B", "0", "8", "X", "Y", "K", "H", "S", "J", "Q">>,
            <<"L", "o", "g", "i", "t", "e", "c", "h", " ", "M", "X", " ", "M",
              "a", "s", "t", "e", "r", " ", "3", "S", " ", "W", "i", "r", "e",
              "l", "e", "s", "s", " ", "M", "o", "u", "s", "e">>,
            Some(MkPrice(9999)),
            Some(<<"L", "o", "g", "i", "t", "e", "c", "h">>),
            TRUE),
        <<"h", "t", "t", "p", "s", ":", "/", "/", "a", "m", "a", "z",
          "o", "n", ".", "c", "o", "m", "/", "d", "p", "/", "B", "0",
          "8", "X", "Y", "K", "H", "S", "J", "Q">>,
        Some(<<"I", "n", " ", "S", "t", "o", "c", "k">>))

\* Fault: an entry pasted from the one before it keeps that entry's asin.
ShippedCatalogPastedEntry ==
    <<Shipped1, Shipped2, [Shipped3 EXCEPT !.asin = Shipped2.asin],
      Shipped4, Shipped5, Shipped6>>

\* MOCK_PRODUCTS as the module initialises it.
ShippedCatalog == <<Shipped1, Shipped2, Shipped3, Shipped4, Shipped5, Shipped6>>

\* "airpods".
Airpods == <<"a", "i", "r", "p", "o", "d", "s">>

\* "nonexistent".
Nonexistent == <<"n", "o", "n", "e", "x", "i", "s", "t", "e", "n", "t">>

\* { keywords: "airpods" }, { minPrice: 300 } and {}.
ShippedSearchInputs ==
    {MkParams(Some(Airpods), Undefined, Undefined),
     MkParams(Undefined, Some(30000), Undefined),
     MkParams(Undefined, Undefined, Undefined)}

ShippedAsinInputs == {Shipped1.asin, Nonexistent}

ShippedCountInputs == {Undefined}

\* The module as shipped, with MaxCalls callers.
InitShipped ==
    /\ MOCK_PRODUCTS = ShippedCatalog
    /\ initialCatalog = MOCK_PRODUCTS
    /\ calls = [c \in 1..MaxCalls |-> Idle]
    /\ pages = [c \in DOMAIN calls |-> NoPage]

NextShipped ==
    \E c \in DOMAIN calls :
        \/ \E params \in ShippedSearchInputs : CallSearch(c, params)
        \/ \E asin \in ShippedAsinInputs : CallGetById(c, asin)
        \/ \E count \in ShippedCountInputs : CallFeatured(c, count)
        \/ ResumeSearch(c)
        \/ ResumeGetById(c)
        \/ ResumeFeatured(c)
        \/ Return(c)

SpecShipped == InitShipped /\ [][NextShipped]_vars

\* C14: on the shipped catalog the search for "airpods" returns exactly the
\* product B08N5WRWNW, the search with minPrice 300 does not return it, the
\* lookup of B08N5WRWNW returns it and the lookup of "nonexistent" returns
\* null.
C14_ShippedScenario ==
    \A c \in DOMAIN calls :
        LET B08N5WRWNW == <<"B", "0", "8", "N", "5", "W", "R", "W", "N", "W">>
        IN  /\ ( /\ Settled(c, "search")
                 /\ calls[c].arg = MkParams(Some(Airpods), Undefined, Undefined) )
                   => /\ calls[c].outcome.kind = "fulfilled"
                      /\ Len(ResultOf(c)) = 1
                      /\ ResultOf(c)[1].asin = B08N5WRWNW
            /\ ( /\ Settled(c, "search")
                 /\ calls[c].arg = MkParams(Undefined, Some(30000), Undefined) )
                   => /\ calls[c].outcome.kind = "fulfilled"
                      /\ \A i \in DOMAIN ResultOf(c) : ResultOf(c)[i].asin # B08N5WRWNW
            /\ (Settled(c, "getById") /\ calls[c].arg = B08N5WRWNW)
                   => /\ calls[c].outcome.kind = "fulfilled"
                      /\ ResultOf(c) # Null
                      /\ ResultOf(c).asin = B08N5WRWNW
                      /\ ResultOf(c).price = Some(MkPrice(24999))
            /\ (Settled(c, "getById") /\ calls[c].arg = Nonexistent)
                   => calls[c].outcome = Fulfilled(Null)

\* The search for "airpods" and the lookup of "nonexistent" both settled on
\* the shipped catalog.
C14_Witness ==
    /\ MOCK_PRODUCTS = ShippedCatalog
    /\ \E c, d \in DOMAIN calls :
          /\ Settled(c, "search")
          /\ calls[c].arg.keywords = Some(Airpods)
          /\ Settled(d, "getById")
          /\ calls[d].arg = Nonexistent

\* C15: over an empty catalog the search without filters and
\* getFeatured(4) are fulfilled with the empty sequence, never null, and
\* every lookup by id is fulfilled with null; no operation throws.
C15_EmptyCatalog ==
    MOCK_PRODUCTS = <<>> =>
        \A c \in DOMAIN calls :
            /\ (Settled(c, "search") /\ calls[c].arg = NoFilters)
                  => calls[c].outcome = Fulfilled(<<>>)
            /\ Settled(c, "featured") => calls[c].outcome = Fulfilled(<<>>)
            /\ Settled(c, "getById") => calls[c].outcome = Fulfilled(Null)

\* getFeatured(4) settled over the empty catalog.
C15_Witness ==
    /\ MOCK_PRODUCTS = <<>>
    /\ \E c \in DOMAIN calls :
          Settled(c, "featured") /\ calls[c].arg = Some(4)

\* t is s with characters added, removed or changed in letter case: it is
\* not s, and it is a case variant of s, a part of s or holds s as a part.
NearMiss(t, s) ==
    /\ t # s
    /\ \/ CaseVariant(t, s)
       \/ includes(s, t)
       \/ includes(t, s)

\* C16: the lookup by id matches by exact, case-sensitive equality of the
\* whole id: an argument that is a case variant, a part or an extension of
\* a stored id, and is itself no stored id, gives null, and a product that
\* is returned has exactly the argument as its id.
C16_GetByIdExactMatch ==
    \A c \in DOMAIN calls :
        Settled(c, "getById") =>
            /\ ( /\ calls[c].arg \notin IdsOf(MOCK_PRODUCTS)
                 /\ \E id \in IdsOf(MOCK_PRODUCTS) : NearMiss(calls[c].arg, id) )
                   => calls[c].outcome = Fulfilled(Null)
            /\ (calls[c].outcome.kind = "fulfilled" /\ ResultOf(c) # Null)
                   => ResultOf(c).asin = calls[c].arg

\* A lookup by an argument that is no stored id, differs from one stored id
\* only in letter case and extends another stored id.
C16_Witness ==
    \E c \in DOMAIN calls :
        /\ Settled(c, "getById")
        /\ calls[c].arg \notin IdsOf(MOCK_PRODUCTS)
        /\ \E id \in IdsOf(MOCK_PRODUCTS) : CaseVariant(calls[c].arg, id)
        /\ \E id \in IdsOf(MOCK_PRODUCTS) :
              Len(id) < Len(calls[c].arg) /\ includes(calls[c].arg, id)

\* ------------------------------------------- the reserved criteria fields

CategoryInputs == {Undefined, Some(<<"b">>)}

PageInputs == {Undefined, Some(1), Some(2)}

ReservedSearchInputs ==
    {WithReserved(params, category, page) :
        params \in {MkParams(Undefined, Undefined, Undefined),
                    MkParams(Some(<<"b">>), Undefined, Undefined),
                    MkParams(Some(<<"a", "B">>), Some(1), Undefined),
                    MkParams(Undefined, Undefined, Some(1))},
        category \in CategoryInputs,
        page \in PageInputs}

\* One caller that searches with criteria that hold category and page.
NextReserved ==
    \E c \in DOMAIN calls :
        \/ \E params \in ReservedSearchInputs : CallSearch(c, params)
        \/ ResumeSearch(c)
        \/ Return(c)

SpecReserved == Init /\ [][NextReserved]_vars

\* C17: category and page bear no load: a search is fulfilled with what the
\* same criteria give with category and page removed, or set to any other
\* values.
C17_ReservedFieldsIgnored ==
    \A c \in DOMAIN calls :
        Settled(c, "search") =>
            /\ calls[c].outcome =
                 searchProducts(MOCK_PRODUCTS,
                                WithReserved(calls[c].arg, Undefined, Undefined))
            /\ \A category \in CategoryInputs, page \in PageInputs :
                  calls[c].outcome =
                    searchProducts(MOCK_PRODUCTS,
                                   WithReserved(calls[c].arg, category, page))

\* A search with a category and page 2 that keeps more than two products and
\* drops one.
C17_Witness ==
    \E c \in DOMAIN calls :
        /\ Settled(c, "search")
        /\ IsDefined(calls[c].arg.category)
        /\ calls[c].arg.page = Some(2)
        /\ Len(ResultOf(c)) > 2
        /\ Len(ResultOf(c)) < Len(MOCK_PRODUCTS)

\* ------------------------------------------------------------ progress

\* setTimeout(resolve, ...): the timer of a suspended call fires, and the
\* event loop then runs the rest of the function.
TimersFire ==
    \A c \in 1..MaxCalls :
        /\ WF_vars(ResumeSearch(c))
        /\ WF_vars(ResumeGetById(c))
        /\ WF_vars(ResumeFeatured(c))

\* The catalogs of at most one product.
LiveCatalogs == {s \in ConcCatalogs : Len(s) <= 1}

InitLive ==
    /\ MOCK_PRODUCTS \in LiveCatalogs
    /\ initialCatalog = MOCK_PRODUCTS
    /\ calls = [c \in 1..MaxCalls |-> Idle]
    /\ pages = [c \in DOMAIN calls |-> NoPage]

\* The concurrent callers, with timers that fire.
SpecLive == InitLive /\ [][NextConc]_vars /\ TimersFire

\* C18: every issued call completes once its delay has elapsed: it is
\* fulfilled with a result; it is not rejected and does not stay pending.
C18_EveryCallCompletes ==
    \A c \in 1..MaxCalls :
        (calls[c].pc = "delay")
            ~> (calls[c].pc = "settled" /\ calls[c].outcome.kind = "fulfilled")

\* Every caller's call has been suspended beside another and is fulfilled.
C18_Witness ==
    \A c \in DOMAIN calls :
        /\ calls[c].pc = "settled"
        /\ calls[c].outcome.kind = "fulfilled"
        /\ calls[c].overlapped

\* ------------------------------------------------------------ the views

\* notFound(): the request ends with the 404 response; notFound throws, so
\* nothing below its call runs.
notFound == [status |-> 404]

\* An error no code catches while the page renders: the error response.
ServerError == [status |-> 500]

\* "stock".
Stock == <<"s", "t", "o", "c", "k">>

\* Fault: the test for "stock" is made on the text as it is written.
ProductDetailsCaseSensitive(product) ==
    [status |-> 200,
     product |-> product,
     availability |->
        IF Truthy(product.availability)
        THEN Some([text |-> ValueOf(product.availability),
                   class |-> IF includes(ValueOf(product.availability), Stock)
                             THEN "text-green-600"
                             ELSE "text-red-600"])
        ELSE Undefined,
     href |-> product.detailPageURL]

\* The product page rendered from product: its fields, the availability
\* line ({product.availability && ...}, green when the lowercased text
\* includes "stock" and red when not) and the "View on Amazon" link.
ProductDetails(product) ==
    [status |-> 200,
     product |-> product,
     availability |->
        IF Truthy(product.availability)
        THEN Some([text |-> ValueOf(product.availability),
                   class |-> IF includes(toLowerCase(ValueOf(product.availability)), Stock)
                             THEN "text-green-600"
                             ELSE "text-red-600"])
        ELSE Undefined,
     href |-> product.detailPageURL]

\* ProductCard: the link to the product page, the availability line and
\* the "View on Amazon" link.
ProductCard(product) ==
    [link |-> <<"/", "p", "r", "o", "d", "u", "c", "t", "/">> \o product.asin,
     availability |->
        IF Truthy(product.availability)
        THEN Some([text |-> ValueOf(product.availability),
                   class |-> IF includes(toLowerCase(ValueOf(product.availability)), Stock)
                             THEN "text-green-600"
                             ELSE "text-red-600"])
        ELSE Undefined,
     href |-> product.detailPageURL]

\* Fault: the page renders without the test of product: reading
\* product.title of null throws a TypeError.
ProductPageBodyUnchecked(product) ==
    IF product = Null THEN ServerError ELSE ProductDetails(product)

\* ProductPage after its await: if (!product) notFound(); then the render.
ProductPageBody(product) ==
    IF product = Null THEN notFound ELSE ProductDetails(product)

\* A request for /product/[asin]: ProductPage runs to its await of
\* getProductByASIN(resolvedParams.asin).
RequestProductPage(c, asin) ==
    /\ pages[c] = NoPage
    /\ Issue(c, "getById", asin)
    /\ pages' = [pages EXCEPT ![c] = [NoPage EXCEPT !.view = "product", !.param = asin]]

\* ProductPage takes the settled promise's outcome into product and answers.
RenderProductPage(c) ==
    /\ pages[c].view = "product"
    /\ pages[c].response = Undefined
    /\ calls[c].pc = "settled"
    /\ pages' =
         [pages EXCEPT ![c].response =
            Some(IF calls[c].outcome.kind = "fulfilled"
                 THEN ProductPageBody(calls[c].outcome.value)
                 ELSE ServerError)]
    /\ UNCHANGED <<MOCK_PRODUCTS, calls, initialCatalog>>

\* A ProductCard is rendered for a product of the catalog, as the grids of
\* the home page and of the products page do for the products they hold.
RenderProductCard(c, i) ==
    /\ pages[c] = NoPage
    /\ calls[c].pc = "idle"
    /\ i \in DOMAIN MOCK_PRODUCTS
    /\ pages' =
         [pages EXCEPT ![c] =
            [NoPage EXCEPT !.view = "card", !.param = MOCK_PRODUCTS[i],
                           !.response = Some(ProductCard(MOCK_PRODUCTS[i]))]]
    /\ UNCHANGED <<MOCK_PRODUCTS, calls, initialCatalog>>

\* The response has been sent: the request is over.
Respond(c) ==
    /\ pages[c].response # Undefined
    /\ pages' = [pages EXCEPT ![c] = NoPage]
    /\ calls' = [calls EXCEPT ![c] = Idle]
    /\ UNCHANGED <<MOCK_PRODUCTS, initialCatalog>>

\* Fault: the heading is chosen by query !== undefined, so that /products?q=
\* is headed 'Search Results'.
ProductsPageHeadingWhenDefined(query) ==
    IF IsDefined(query) THEN "Search Results" ELSE "All Products"

\* The heading of the products page: query ? 'Search Results' : 'All Products'.
ProductsPageHeading(query) ==
    IF Truthy(query) THEN "Search Results" ELSE "All Products"

\* Fault: the plural is chosen by products.length > 1, so that nothing
\* found reads "0 product found".
FoundLineSingularZero(products) ==
    [count |-> Len(products),
     noun |-> IF Len(products) > 1 THEN "products" ELSE "product"]

\* The line "{products.length} product{products.length !== 1 ? 's' : ''} found".
FoundLine(products) ==
    [count |-> Len(products),
     noun |-> IF Len(products) # 1 THEN "products" ELSE "product"]

\* Fault: the count shown is that of the whole catalog.
ProductResultsBodyCountingCatalog(query, products) ==
    [status |-> 200,
     resultsFor |-> IF Truthy(query) THEN query ELSE Undefined,
     found |-> IF Truthy(query) THEN Some(FoundLine(MOCK_PRODUCTS)) ELSE Undefined,
     grid |-> products]

\* ProductResults after its await: {query && (the "Showing results for"
\* line and the "found" line)}, then <ProductGrid products={products} />.
ProductResultsBody(query, products) ==
    [status |-> 200,
     resultsFor |-> IF Truthy(query) THEN query ELSE Undefined,
     found |-> IF Truthy(query) THEN Some(FoundLine(products)) ELSE Undefined,
     grid |-> products]

\* A request for /products?q=...: ProductsPage renders its heading and
\* ProductResults runs to its await of searchProducts({keywords: query}).
RequestProductsPage(c, q) ==
    /\ pages[c] = NoPage
    /\ Issue(c, "search", MkParams(q, Undefined, Undefined))
    /\ pages' =
         [pages EXCEPT ![c] =
            [NoPage EXCEPT !.view = "products", !.param = q,
                           !.heading = Some(ProductsPageHeading(q))]]

\* ProductResults takes the settled promise's outcome into products and
\* renders.
RenderProductResults(c) ==
    /\ pages[c].view = "products"
    /\ pages[c].response = Undefined
    /\ calls[c].pc = "settled"
    /\ pages' =
         [pages EXCEPT ![c].response =
            Some(IF calls[c].outcome.kind = "fulfilled"
                 THEN ProductResultsBody(pages[c].param, calls[c].outcome.value)
                 ELSE ServerError)]
    /\ UNCHANGED <<MOCK_PRODUCTS, calls, initialCatalog>>

\* Fault: the grid shows one row of three (featuredProducts.slice(0, 3)).
HomeBodyOneRow(featuredProducts) ==
    [status |-> 200, grid |-> slice(featuredProducts, 3)]

\* Home after its await: <ProductGrid products={featuredProducts} />.
HomeBody(featuredProducts) == [status |-> 200, grid |-> featuredProducts]

\* A request for /: Home runs to its await of getFeaturedProducts().
RequestHome(c) ==
    /\ pages[c] = NoPage
    /\ Issue(c, "featured", Undefined)
    /\ pages' = [pages EXCEPT ![c] = [NoPage EXCEPT !.view = "home"]]

\* Home takes the settled promise's outcome into featuredProducts and
\* renders.
RenderHome(c) ==
    /\ pages[c].view = "home"
    /\ pages[c].response = Undefined
    /\ calls[c].pc = "settled"
    /\ pages' =
         [pages EXCEPT ![c].response =
            Some(IF calls[c].outcome.kind = "fulfilled"
                 THEN HomeBody(calls[c].outcome.value)
                 ELSE ServerError)]
    /\ UNCHANGED <<MOCK_PRODUCTS, calls, initialCatalog>>

\* The values of the path parameter asin.
AsinParamInputs == AsinInputs

\* The values of the query parameter q: absent, empty and some strings.
QueryInputs == KeywordInputs

\* One request at a time to the product page, the products page and the
\* home page.
NextPages ==
    \E c \in DOMAIN calls :
        \/ \E asin \in AsinParamInputs : RequestProductPage(c, asin)
        \/ \E q \in QueryInputs : RequestProductsPage(c, q)
        \/ ResumeGetById(c)
        \/ RequestHome(c)
        \/ ResumeSearch(c)
        \/ ResumeFeatured(c)
        \/ RenderProductPage(c)
        \/ RenderProductResults(c)
        \/ RenderHome(c)
        \/ Respond(c)

SpecPages == Init /\ [][NextPages]_vars

\* The response of the request in slot c.
ResponseOf(c) == ValueOf(pages[c].response)

Answered(c, view) == pages[c].view = view /\ pages[c].response # Undefined

\* C19: the product page calls getProductByASIN with its path parameter;
\* when the call gives null the response is the 404 and no product details
\* are rendered; when it gives a product the response is that product's
\* page, which is the catalog's product with that identifier, and not the
\* 404.
C19_DetailView ==
    \A c \in DOMAIN pages :
        pages[c].view = "product" =>
            /\ calls[c].op = "getById"
            /\ calls[c].arg = pages[c].param
            /\ Answered(c, "product") =>
                  /\ Settled(c, "getById")
                  /\ ResultOf(c) = Null =>
                        /\ ResponseOf(c) = [status |-> 404]
                        /\ pages[c].param \notin IdsOf(MOCK_PRODUCTS)
                  /\ ResultOf(c) # Null =>
                        /\ ResponseOf(c).status = 200
                        /\ ResponseOf(c).product = ResultOf(c)
                        /\ ResultOf(c).asin = pages[c].param
                        /\ ResultOf(c) \in Range(MOCK_PRODUCTS)

\* The product page has answered 404 for a parameter that differs from a
\* stored identifier in letter case only.
C19_Witness ==
    \E c \in DOMAIN pages :
        /\ Answered(c, "product")
        /\ ResponseOf(c) = [status |-> 404]
        /\ \E i \in DOMAIN MOCK_PRODUCTS : NearMiss(pages[c].param, MOCK_PRODUCTS[i].asin)

\* The products request in slot c has called searchProducts with
\* {keywords: q} and, once answered, has rendered the sequence the call gave.
ListingSearchesAndRenders(c) ==
    /\ calls[c].op = "search"
    /\ calls[c].arg = MkParams(pages[c].param, Undefined, Undefined)
    /\ Answered(c, "products") =>
          /\ Settled(c, "search")
          /\ ResponseOf(c).status = 200
          /\ ResponseOf(c).grid = ResultOf(c)

\* The answered products request in slot c displays the count of results.
DisplaysCount(c) ==
    /\ ResponseOf(c).found # Undefined
    /\ ValueOf(ResponseOf(c).found).count = Len(ResultOf(c))

\* C20 as stated: for every request the products page wraps q into
\* {keywords: q}, calls searchProducts, renders the returned sequence and
\* displays the count of results.
C20_ListingAlwaysCounts ==
    \A c \in DOMAIN pages :
        pages[c].view = "products" =>
            /\ ListingSearchesAndRenders(c)
            /\ Answered(c, "products") => DisplaysCount(c)

\* C20, amended: for every request the products page wraps q into
\* {keywords: q}, calls searchProducts and renders the returned sequence;
\* it displays the count of results when q is present and not empty.
C20_ListingCountsForQuery ==
    \A c \in DOMAIN pages :
        pages[c].view = "products" =>
            /\ ListingSearchesAndRenders(c)
            /\ Answered(c, "products") /\ Truthy(pages[c].param) => DisplaysCount(c)

\* The products page has answered a query that some products of the
\* catalog match and others do not, and displays the count.
C20_Witness ==
    \E c \in DOMAIN pages :
        /\ Answered(c, "products")
        /\ Truthy(pages[c].param)
        /\ DisplaysCount(c)
        /\ 0 < Len(ResponseOf(c).grid)
        /\ Len(ResponseOf(c).grid) < Len(MOCK_PRODUCTS)

\* C21: the products page answers a query that is not empty and that no
\* product of the catalog matches with an empty list and the line
\* "0 products found", not with an error; whatever is found, the noun of
\* that line is "product" exactly when one product is found.
C21_NothingFound ==
    \A c \in DOMAIN pages :
        Answered(c, "products") /\ Truthy(pages[c].param) =>
            /\ ResponseOf(c).status = 200
            /\ ResponseOf(c).found # Undefined
            /\ LET found == ValueOf(ResponseOf(c).found)
               IN  /\ found.count = Len(ResponseOf(c).grid)
                   /\ found.noun = (IF found.count = 1 THEN "product" ELSE "products")
            /\ (\A i \in DOMAIN MOCK_PRODUCTS :
                    ~SatisfiesKeywords(MOCK_PRODUCTS[i], calls[c].arg)) =>
                  /\ ResponseOf(c).grid = <<>>
                  /\ ResponseOf(c).found = Some([count |-> 0, noun |-> "products"])

\* The products page has answered "0 products found" over a catalog that
\* holds products.
C21_Witness ==
    \E c \in DOMAIN pages :
        /\ Answered(c, "products")
        /\ Truthy(pages[c].param)
        /\ MOCK_PRODUCTS # <<>>
        /\ ResponseOf(c).grid = <<>>
        /\ ResponseOf(c).found = Some([count |-> 0, noun |-> "products"])

\* C22: the home page calls getFeaturedProducts with no argument and
\* renders exactly the sequence the call gave, which is the first four
\* products of the catalog in storage order, or all of them when the
\* catalog holds fewer.
C22_HomeView ==
    \A c \in DOMAIN pages :
        pages[c].view = "home" =>
            /\ calls[c].op = "featured"
            /\ calls[c].arg = Undefined
            /\ Answered(c, "home") =>
                  /\ Settled(c, "featured")
                  /\ ResponseOf(c) = [status |-> 200, grid |-> ResultOf(c)]
                  /\ IsPrefixOfLength(ResponseOf(c).grid, MOCK_PRODUCTS, 4)

\* The home page has rendered four products of a catalog that holds more.
C22_Witness ==
    \E c \in DOMAIN pages :
        /\ Answered(c, "home")
        /\ Len(ResponseOf(c).grid) = 4
        /\ Len(MOCK_PRODUCTS) > 4

\* The places of the catalog that hold a product whose asin is asin.
PlacesOf(asin) == {i \in DOMAIN MOCK_PRODUCTS : MOCK_PRODUCTS[i].asin = asin}

\* C23: no two entries of the catalog share an asin, so that at most one
\* product matches the argument of a getProductByASIN call.
C23_IdsUnique ==
    /\ \A i, j \in DOMAIN MOCK_PRODUCTS :
          MOCK_PRODUCTS[i].asin = MOCK_PRODUCTS[j].asin => i = j
    /\ \A c \in DOMAIN calls :
          calls[c].op = "getById" => Cardinality(PlacesOf(calls[c].arg)) <= 1

\* A lookup on the shipped catalog has settled with the one product that
\* holds the asin, after another call settled.
C23_Witness ==
    \E c \in DOMAIN calls :
        /\ Settled(c, "getById")
        /\ ResultOf(c) # Null
        /\ Cardinality(PlacesOf(calls[c].arg)) = 1
        /\ Len(MOCK_PRODUCTS) > 1
        /\ calls[c].since > 0

\* ----------------------------------------------------- rendered links

\* Requests to the product page and cards rendered, on the module as
\* shipped.
NextShippedPages ==
    \E c \in DOMAIN calls :
        \/ \E asin \in ShippedAsinInputs : RequestProductPage(c, asin)
        \/ ResumeGetById(c)
        \/ RenderProductPage(c)
        \/ \E i \in DOMAIN MOCK_PRODUCTS : RenderProductCard(c, i)
        \/ Respond(c)

SpecShippedPages == InitShipped /\ [][NextShippedPages]_vars

\* The query parameter that carries the Associates tracking id.
TagParameter == <<"t", "a", "g", "=">>

\* The slot holds a rendered "View on Amazon" link: that of a card, or that
\* of a product page that found its product.
RendersLink(c) ==
    \/ Answered(c, "card")
    \/ Answered(c, "product") /\ ResponseOf(c).status = 200

\* C24: every "View on Amazon" link rendered, which is the detailPageURL
\* of a product of the catalog, carries an affiliate tracking tag.
C24_LinksCarryTag ==
    \A c \in DOMAIN pages :
        RendersLink(c) => includes(ResponseOf(c).href, TagParameter)

\* ------------------------------------------------- availability lines

\* Availability texts: none, "", and texts with and without "stock" in
\* several letter cases.
AvailabilityInputs ==
    {Undefined,
     Some(<<>>),
     Some(<<"I", "n", " ", "S", "t", "o", "c", "k">>),
     Some(<<"N", "O", " ", "S", "T", "O", "C", "K">>),
     Some(<<"s", "t", "o", "c", "k">>),
     Some(<<"s", "t", "o", "c">>),
     Some(<<"S", "o", "l", "d">>)}

\* Catalogs of one product, with every availability text.
AvailabilityCatalogs ==
    {<<Listed(ProductUniverse[1], ProductUniverse[1].detailPageURL, a)>> :
        a \in AvailabilityInputs}

InitAvailability ==
    /\ MOCK_PRODUCTS \in AvailabilityCatalogs
    /\ initialCatalog = MOCK_PRODUCTS
    /\ calls = [c \in 1..MaxCalls |-> Idle]
    /\ pages = [c \in DOMAIN calls |-> NoPage]

\* Requests to the product page and cards rendered.
NextAvailability ==
    \E c \in DOMAIN calls :
        \/ \E asin \in ConcAsinInputs : RequestProductPage(c, asin)
        \/ ResumeGetById(c)
        \/ RenderProductPage(c)
        \/ \E i \in DOMAIN MOCK_PRODUCTS : RenderProductCard(c, i)
        \/ Respond(c)

SpecAvailability == InitAvailability /\ [][NextAvailability]_vars

\* The slot holds a rendered product: a card, or a product page that found
\* its product.
RendersProduct(c) ==
    \/ Answered(c, "card")
    \/ Answered(c, "product") /\ ResponseOf(c).status = 200

\* The product the slot renders.
RenderedProduct(c) ==
    IF pages[c].view = "card" THEN pages[c].param ELSE ResponseOf(c).product

\* The availability text of p holds "stock" in some letter case.
MentionsStock(p) ==
    /\ IsDefined(p.availability)
    /\ \E k \in 0..Len(ValueOf(p.availability)) :
          /\ k + Len(Stock) <= Len(ValueOf(p.availability))
          /\ CaseVariant(SubSeq(ValueOf(p.availability), k + 1, k + Len(Stock)), Stock)

\* The colour of the availability line the slot renders, if it renders one.
AvailabilityColour(c) ==
    IF ResponseOf(c).availability = Undefined
    THEN "none"
    ELSE ValueOf(ResponseOf(c).availability).class

\* C25 as stated: a rendered product whose availability text holds "stock"
\* in any letter case is shown green, and any other product is shown red,
\* on the card and on the product page.
C25_StockOrWarning ==
    \A c \in DOMAIN pages :
        RendersProduct(c) =>
            AvailabilityColour(c) =
                (IF MentionsStock(RenderedProduct(c))
                 THEN "text-green-600" ELSE "text-red-600")

\* C25, amended: a rendered product whose availability text holds "stock"
\* in any letter case is shown green, and any other product that has an
\* availability text that is not empty is shown red, on the card and on
\* the product page.
C25_StockOrWarningWhenText ==
    \A c \in DOMAIN pages :
        RendersProduct(c) /\ Truthy(RenderedProduct(c).availability) =>
            /\ ResponseOf(c).availability # Undefined
            /\ ValueOf(ResponseOf(c).availability).text
                  = ValueOf(RenderedProduct(c).availability)
            /\ AvailabilityColour(c) =
                  (IF MentionsStock(RenderedProduct(c))
                   THEN "text-green-600" ELSE "text-red-600")

\* A card and a product page show the same product green, whose text
\* holds "stock" in capitals only.
C25_Witness ==
    \E c, d \in DOMAIN pages :
        /\ Answered(c, "card")
        /\ Answered(d, "product")
        /\ ResponseOf(d).status = 200
        /\ RenderedProduct(c) = RenderedProduct(d)
        /\ AvailabilityColour(c) = "text-green-600"
        /\ AvailabilityColour(d) = "text-green-600"
        /\ ~includes(ValueOf(RenderedProduct(c).availability), Stock)

\* --------------------------------------------------- empty and zero

\* The products of the result of the search in slot c have a price, and no
\* product of the catalog without a price is among them.
ExcludesUnpriced(c) ==
    /\ \A i \in DOMAIN ResultOf(c) : IsDefined(ResultOf(c)[i].price)
    /\ \A p \in Range(MOCK_PRODUCTS) :
          ~IsDefined(p.price) => p \notin Range(ResultOf(c))

\* C26: a search whose keywords are "" is fulfilled with what the price
\* bounds alone keep, as the search without keywords is; a bound of 0 is a
\* bound: every product of the result has a price, at least 0 for minPrice
\* and at most 0 for maxPrice, and the products without a price are left
\* out.
C26_EmptyKeywordsZeroBounds ==
    \A c \in DOMAIN calls :
        Settled(c, "search") =>
            LET params == calls[c].arg
                PriceOnly(p) == SatisfiesMinPrice(p, params) /\ SatisfiesMaxPrice(p, params)
            IN  /\ params.keywords = Some(<<>>) =>
                      calls[c].outcome = Fulfilled(SelectSeq(MOCK_PRODUCTS, PriceOnly))
                /\ params.minPrice = Some(0) =>
                      /\ ExcludesUnpriced(c)
                      /\ \A i \in DOMAIN ResultOf(c) : ValueOf(ResultOf(c)[i].price).value >= 0
                /\ params.maxPrice = Some(0) =>
                      /\ ExcludesUnpriced(c)
                      /\ \A i \in DOMAIN ResultOf(c) : ValueOf(ResultOf(c)[i].price).value <= 0

\* A search with keywords "" and maxPrice 0 has kept a product and has
\* left out a product with no price and a product with a higher price.
C26_Witness ==
    \E c \in DOMAIN calls :
        /\ Settled(c, "search")
        /\ calls[c].arg.keywords = Some(<<>>)
        /\ calls[c].arg.minPrice = Undefined
        /\ calls[c].arg.maxPrice = Some(0)
        /\ ResultOf(c) # <<>>
        /\ \E p, q \in Range(MOCK_PRODUCTS) \ Range(ResultOf(c)) :
              /\ ~IsDefined(p.price)
              /\ IsDefined(q.price)

\* ------------------------------------------------ keywords of words

\* "apple".
Apple == <<"a", "p", "p", "l", "e">>

\* "pro".
Pro == <<"p", "r", "o">>

\* " ".
Space == <<" ">>

\* Keywords of one word, of two words in the order of a title and in the
\* other order, and with a space before or after them.
WordSearchInputs ==
    {MkParams(Some(k), Undefined, Undefined) :
        k \in {Airpods,
               Airpods \o Space \o Pro,
               Pro \o Space \o Airpods,
               Space \o Apple,
               Apple \o Space \o Space}}

\* Searches by keywords of words on the module as shipped.
NextWords ==
    \E c \in DOMAIN calls :
        \/ \E params \in WordSearchInputs : CallSearch(c, params)
        \/ ResumeSearch(c)
        \/ Return(c)

SpecWords == InitShipped /\ [][NextWords]_vars

\* t stands in s at some place, character by character.
OccursIn(s, t) ==
    \E k \in 0..Len(s) :
        /\ k + Len(t) <= Len(s)
        /\ \A i \in 1..Len(t) : s[k + i] = t[i]

\* C27: the keywords are matched whole, as they are given: the result of a
\* search by keywords holds exactly the products whose lowercased title or
\* brand holds the lowercased keywords, spaces included, as one run of
\* characters; keywords whose words stand in a title apart or in another
\* order, or that begin or end with a space no title or brand holds there,
\* match nothing.
C27_KeywordsMatchedWhole ==
    \A c \in DOMAIN calls :
        Settled(c, "search") /\ Truthy(calls[c].arg.keywords) =>
            LET k == toLowerCase(ValueOf(calls[c].arg.keywords))
            IN  \A p \in Range(MOCK_PRODUCTS) :
                    p \in Range(ResultOf(c)) <=>
                        \/ OccursIn(toLowerCase(p.title), k)
                        \/ IsDefined(p.brand) /\ OccursIn(toLowerCase(ValueOf(p.brand)), k)

\* One search by "pro airpods" and one by " apple" have found nothing in a
\* catalog with a title that holds "airpods pro" and begins with "apple".
C27_Witness ==
    \E c, d \in DOMAIN calls :
        /\ Settled(c, "search")
        /\ Settled(d, "search")
        /\ calls[c].arg.keywords = Some(Pro \o Space \o Airpods)
        /\ calls[d].arg.keywords = Some(Space \o Apple)
        /\ ResultOf(c) = <<>>
        /\ ResultOf(d) = <<>>
        /\ \E p \in Range(MOCK_PRODUCTS) :
              /\ OccursIn(toLowerCase(p.title), Airpods \o Space \o Pro)
              /\ OccursIn(toLowerCase(p.title), Apple)
              /\ ~OccursIn(toLowerCase(p.title), Space \o Apple)

\* ---------------------------------------------------- narrower searches

\* Criteria that supply no filter, one, two and three, each the one before
\* it with one filter more.
RefineSearchInputs ==
    {MkParams(Undefined, Undefined, Undefined),
     MkParams(Some(<<"b">>), Undefined, Undefined),
     MkParams(Some(<<"b">>), Some(1), Undefined),
     MkParams(Some(<<"b">>), Some(1), Some(1))}

\* MaxCalls callers that search.
NextRefine ==
    \E c \in DOMAIN calls :
        \/ \E params \in RefineSearchInputs : CallSearch(c, params)
        \/ ResumeSearch(c)
        \/ Return(c)

SpecRefine == InitConc /\ [][NextRefine]_vars

\* narrow supplies every filter that wide supplies, with the same value.
Supplies(narrow, wide) ==
    /\ IsDefined(wide.keywords) => narrow.keywords = wide.keywords
    /\ IsDefined(wide.minPrice) => narrow.minPrice = wide.minPrice
    /\ IsDefined(wide.maxPrice) => narrow.maxPrice = wide.maxPrice

\* r is s with some elements left out; no element of s stands twice in s.
IsSubsequence(r, s) ==
    /\ \A i \in DOMAIN r : \E k \in DOMAIN s : s[k] = r[i]
    /\ \A i, j \in DOMAIN r :
          i < j => \E k, l \in DOMAIN s : k < l /\ s[k] = r[i] /\ s[l] = r[j]

\* C28: a search that supplies every filter of another search, with the
\* same values, and possibly more, finds a subsequence of what the other
\* finds; and the three filters give the same result in whatever order
\* they are applied.
C28_FiltersOnlyNarrow ==
    /\ \A c, d \in DOMAIN calls :
          (/\ Settled(c, "search")
           /\ Settled(d, "search")
           /\ Supplies(calls[d].arg, calls[c].arg))
              => IsSubsequence(ResultOf(d), ResultOf(c))
    /\ \A c \in DOMAIN calls :
          Settled(c, "search") =>
              LET params == calls[c].arg
                  K(r) == filterByKeywords(r, params)
                  L(r) == filterByMinPrice(r, params)
                  H(r) == filterByMaxPrice(r, params)
              IN  /\ ResultOf(c) = H(K(L(MOCK_PRODUCTS)))
                  /\ ResultOf(c) = K(H(L(MOCK_PRODUCTS)))
                  /\ ResultOf(c) = K(L(H(MOCK_PRODUCTS)))
                  /\ ResultOf(c) = L(K(H(MOCK_PRODUCTS)))
                  /\ ResultOf(c) = L(H(K(MOCK_PRODUCTS)))

\* Two settled searches, the second with the keywords of the first and a
\* lower bound besides, and with fewer products found, though some.
C28_Witness ==
    \E c, d \in DOMAIN calls :
        /\ Settled(c, "search")
        /\ Settled(d, "search")
        /\ IsDefined(calls[c].arg.keywords)
        /\ ~IsDefined(calls[c].arg.minPrice)
        /\ IsDefined(calls[d].arg.minPrice)
        /\ Supplies(calls[d].arg, calls[c].arg)
        /\ ResultOf(d) # <<>>
        /\ Len(ResultOf(d)) < Len(ResultOf(c))
        /\ Len(ResultOf(c)) < Len(MOCK_PRODUCTS)

\* ------------------------------------------------ the caller's arrays

\* What a caller does to an array it was given: push(product), pop() and
\* reverse().
ArrayEdits == {"push", "pop", "reverse"}

reverse(s) == [i \in DOMAIN s |-> s[Len(s) + 1 - i]]

ApplyEdit(edit, s) ==
    CASE edit = "push" -> Append(s, ProductUniverse[Len(ProductUniverse)])
      [] edit = "pop" -> SubSeq(s, 1, Len(s) - 1)
      [] edit = "reverse" -> reverse(s)

\* The caller of a settled searchProducts or getFeaturedProducts call edits
\* the array it was given, in place.  An array is one object: when the
\* array given is the module's array, the edit is an edit of MOCK_PRODUCTS
\* and of every other promise's value that is that array.
EditResult(c, edit) ==
    /\ calls[c].pc = "settled"
    /\ calls[c].op \in {"search", "featured"}
    /\ calls[c].outcome.kind = "fulfilled"
    /\ LET edited == ApplyEdit(edit, calls[c].outcome.value)
       IN  /\ calls' =
                [d \in DOMAIN calls |->
                   IF d = c
                   THEN [calls[c] EXCEPT !.pc = "edited", !.outcome.value = edited,
                                         !.since = 0]
                   ELSE IF /\ calls[c].shares
                           /\ calls[d].shares
                           /\ calls[d].pc \in {"settled", "edited"}
                        THEN [calls[d] EXCEPT !.outcome.value = edited]
                        ELSE calls[d]]
           /\ MOCK_PRODUCTS' = IF calls[c].shares THEN edited ELSE MOCK_PRODUCTS
    /\ UNCHANGED <<initialCatalog, pages>>

\* The caller lets go of the array it edited.
Drop(c) ==
    /\ calls[c].pc = "edited"
    /\ calls' = [calls EXCEPT ![c] = Idle]
    /\ UNCHANGED <<MOCK_PRODUCTS, initialCatalog, pages>>

\* A catalog longer than what getFeaturedProducts returns.
EditCatalogs == {SubSeq(ProductUniverse, 1, 5)}

InitEdit ==
    /\ MOCK_PRODUCTS \in EditCatalogs
    /\ initialCatalog = MOCK_PRODUCTS
    /\ calls = [c \in 1..MaxCalls |-> Idle]
    /\ pages = [c \in DOMAIN calls |-> NoPage]

\* MaxCalls callers, who edit the arrays they are given.
NextEdit ==
    \E c \in DOMAIN calls :
        \/ \E params \in ConcSearchInputs : CallSearch(c, params)
        \/ \E asin \in ConcAsinInputs : CallGetById(c, asin)
        \/ \E count \in ConcCountInputs : CallFeatured(c, count)
        \/ ResumeSearch(c)
        \/ ResumeGetById(c)
        \/ ResumeFeatured(c)
        \/ \E edit \in ArrayEdits : EditResult(c, edit)
        \/ Drop(c)
        \/ Return(c)

SpecEdit == InitEdit /\ [][NextEdit]_vars

\* C29: the array a search or a getFeaturedProducts call is fulfilled with
\* is a new array: whatever callers add to, remove from or reorder in the
\* arrays they were given, the catalog stays as the module initialised it
\* and every call settles with the outcome it has on that catalog.
C29_ReturnedArraysAreFresh ==
    /\ MOCK_PRODUCTS = initialCatalog
    /\ \A c \in DOMAIN calls :
          calls[c].pc = "settled" => calls[c].outcome = RunAlone(c)

\* A caller has edited the whole catalog it was given by a search without
\* filters, and a search, a lookup or a getFeaturedProducts call has
\* settled since.
C29_Witness ==
    \E c, d \in DOMAIN calls :
        /\ calls[c].pc = "edited"
        /\ calls[c].op = "search"
        /\ calls[c].arg = NoFilters
        /\ calls[c].outcome.value # MOCK_PRODUCTS
        /\ calls[c].since > 0
        /\ calls[d].pc = "settled"
        /\ calls[d].since = 0

\* ------------------------------------------------- the two listings

\* C30: a request to the products page with q absent or empty is headed
\* "All Products", searches with keywords that filter nothing and renders
\* the whole catalog in storage order, with no "results for" line and no
\* count; a request with a q that is not empty is headed "Search Results"
\* and renders the query and the count of the products found.
C30_AllProductsOrSearchResults ==
    \A c \in DOMAIN pages :
        pages[c].view = "products" =>
            IF Truthy(pages[c].param)
            THEN /\ pages[c].heading = Some("Search Results")
                 /\ Answered(c, "products") =>
                       /\ ResponseOf(c).resultsFor = pages[c].param
                       /\ ResponseOf(c).found # Undefined
                       /\ ValueOf(ResponseOf(c).found).count = Len(ResponseOf(c).grid)
            ELSE /\ pages[c].heading = Some("All Products")
                 /\ ~Truthy(calls[c].arg.keywords)
                 /\ calls[c].arg.minPrice = Undefined
                 /\ calls[c].arg.maxPrice = Undefined
                 /\ Answered(c, "products") =>
                       /\ ResponseOf(c).grid = MOCK_PRODUCTS
                       /\ ResponseOf(c).resultsFor = Undefined
                       /\ ResponseOf(c).found = Undefined

\* The products page has answered a request whose q is "" with the whole
\* of a catalog of several products, that a search by "b" would narrow.
C30_Witness ==
    \E c \in DOMAIN pages :
        /\ Answered(c, "products")
        /\ pages[c].param = Some(<<>>)
        /\ pages[c].heading = Some("All Products")
        /\ ResponseOf(c).grid = MOCK_PRODUCTS
        /\ Len(MOCK_PRODUCTS) > 1
        /\ \E p \in Range(MOCK_PRODUCTS) :
              ~SatisfiesKeywords(p, MkParams(Some(<<"b">>), Undefined, Undefined))

====
